---- MODULE Spec2Model ----
(***************************************************************************)
(* The gossipsub peer-scoring engine (protocols/gossipsub/src/peer_score). *)
(*                                                                         *)
(* Real-valued counters (f64) are held as exact fixed-point integers:      *)
(* first_message_deliveries, mesh_message_deliveries,                      *)
(* invalid_message_deliveries and behaviour_penalty in units of 1/Scale,   *)
(* mesh_failure_penalty (a sum of squared deficits) in units of 1/Scale^2, *)
(* and a score in units of 1/Scale^2.  An operation whose result is not    *)
(* exactly representable at that precision is not taken (ExactRefresh).    *)
(* Instants and Durations are whole seconds.                               *)
(***************************************************************************)
EXTENDS Integers, Sequences, FiniteSets, TLC

VARIABLES
  peer_stats,   \* PeerScore.peer_stats
  peer_ips,     \* PeerScore.peer_ips
  deliveries,   \* PeerScore.deliveries
  now,          \* the value of Instant::now()
  last,         \* history: the call that produced this state
  observers,    \* history: per message id, the peers whose duplicated_message
                \* call found the record still Unknown
  delivery_times, \* PeerScore.deliveries: the Instant the time cache keeps
                \* beside each record
  sessions      \* history: per <<peer, topic>>, the time of the most recent
                \* graft and the number of times mesh_failure_penalty was
                \* raised since

vars == <<peer_stats, peer_ips, deliveries, now, last, observers,
          delivery_times, sessions>>

(***************************************************************************)
(* Bounds of the model.                                                    *)
(***************************************************************************)
\* fractional bits kept by the fixed-point counters
FracBits == 1
\* number of clock advances (of 60 s each) explored
MaxTicks == 2
\* largest value explored for invalid_message_deliveries and behaviour_penalty,
\* and number of full mesh-delivery deficits explored for mesh_failure_penalty
MaxPenalty == 1

RECURSIVE Pow2(_)
Pow2(n) == IF n = 0 THEN 1 ELSE 2 * Pow2(n - 1)

Scale == Pow2(FracBits)
Scale2 == Scale * Scale

Horizon == MaxTicks * 60

(***************************************************************************)
(* Inputs.                                                                 *)
(***************************************************************************)
Peers == {"A", "B"}
Topics == {"T", "U"}
Ips == {"X", "Y"}
IpLists == {<<>>, <<"X">>, <<"Y">>}

\* GossipsubMessage: source, sequence_number, topics
Messages == { [source |-> "A", sequence_number |-> 1, topics |-> <<"T", "U">>] }

RejectReasons == {"MissingSignature", "InvalidSignature", "SelfOrigin",
                  "BlacklistedPeer", "BlackListenSource", "ValidationQueueFull",
                  "ValidationThrottled", "ValidationIgnored"}

\* the reject reasons that return before the delivery record is looked up
UntrackedReasons == {"SelfOrigin", "BlackListenSource", "ValidationQueueFull"}

Half == [num |-> 1, den |-> 2]

\* the scoring parameters the engine is constructed with; only "T" is scored
params ==
  [ topics |-> [t \in {"T"} |->
      [ topic_weight |-> 1,
        time_in_mesh_weight |-> 1,
        time_in_mesh_quantum |-> 60,
        time_in_mesh_cap |-> 2,
        first_message_deliveries_weight |-> 1,
        first_message_deliveries_decay |-> Half,
        first_message_deliveries_cap |-> 3,
        mesh_message_deliveries_weight |-> -1,
        mesh_message_deliveries_decay |-> Half,
        mesh_message_deliveries_cap |-> 2,
        mesh_message_deliveries_threshold |-> 2,
        mesh_message_deliveries_window |-> 60,
        mesh_message_deliveries_activation |-> 60,
        mesh_failure_penalty_weight |-> -1,
        mesh_failure_penalty_decay |-> Half,
        invalid_message_deliveries_weight |-> -1,
        invalid_message_deliveries_decay |-> Half ]],
    topic_score_cap |-> 2,
    ip_colocation_factor_weight |-> -1,
    ip_colocation_factor_threshold |-> 1,
    ip_colocation_factor_whitelist |-> {"W"},
    behaviour_penalty_weight |-> -1,
    behaviour_penalty_decay |-> Half,
    decay_to_zero |-> [num |-> 3, den |-> 4],
    retain_score |-> 60 ]

Range(s) == { s[i] : i \in DOMAIN s }

\* HashMap::new, HashMap::insert, HashMap::remove on a function
EmptyMap == [x \in {} |-> 0]
MapPut(f, k, v) == [x \in (DOMAIN f) \cup {k} |-> IF x = k THEN v ELSE f[x]]
MapDel(f, k) == [x \in (DOMAIN f) \ {k} |-> f[x]]

(***************************************************************************)
(* Data types.                                                             *)
(***************************************************************************)
Connected == [tag |-> "Connected", expire |-> 0]
Disconnected(expire) == [tag |-> "Disconnected", expire |-> expire]

InActive == [tag |-> "InActive", graft_time |-> 0, mesh_time |-> 0]
Active(graft_time, mesh_time) ==
  [tag |-> "Active", graft_time |-> graft_time, mesh_time |-> mesh_time]

\* MeshStatus::new_active
new_active(t) == Active(t, 0)

\* impl Default for TopicStats
DefaultTopicStats ==
  [ mesh_status |-> InActive,
    first_message_deliveries |-> 0,
    mesh_message_deliveries_active |-> FALSE,
    mesh_message_deliveries |-> 0,
    mesh_failure_penalty |-> 0,
    invalid_message_deliveries |-> 0 ]

\* impl Default for PeerStats
DefaultPeerStats ==
  [ status |-> Connected,
    topics |-> EmptyMap,
    known_ips |-> <<>>,
    behaviour_penalty |-> 0 ]

\* impl Default for DeliveryRecord
DefaultDeliveryRecord(t) ==
  [ status |-> "Unknown", first_seen |-> t, validated |-> t, peers |-> {} ]

\* TopicStats::in_mesh
in_mesh(ts) == ts.mesh_status.tag = "Active"

\* the default message id: source + sequence number
msg_id(msg) == <<msg.source, msg.sequence_number>>

(***************************************************************************)
(* PeerStats::stats_or_default_mut: the peer's stats with the TopicStats   *)
(* entry for topic_hash created when the topic is scored; has_topic_stats  *)
(* tells whether the call returns Some.                                    *)
(***************************************************************************)
\* self.topics.entry(topic_hash).or_default() whatever the parameters say
stats_or_default_mut_unscored(pstats, topic_hash) ==
  IF topic_hash \notin DOMAIN pstats.topics
  THEN [pstats EXCEPT !.topics = MapPut(pstats.topics, topic_hash, DefaultTopicStats)]
  ELSE pstats

stats_or_default_mut(pstats, topic_hash) ==
  IF topic_hash \in DOMAIN params.topics /\ topic_hash \notin DOMAIN pstats.topics
  THEN [pstats EXCEPT !.topics = MapPut(pstats.topics, topic_hash, DefaultTopicStats)]
  ELSE pstats

has_topic_stats(pstats, topic_hash) ==
  topic_hash \in DOMAIN stats_or_default_mut(pstats, topic_hash).topics

\* the TopicStats of a peer, or the default when there is none
TopicStatsOf(stats, p, topic) ==
  IF p \in DOMAIN stats /\ topic \in DOMAIN stats[p].topics
  THEN stats[p].topics[topic]
  ELSE DefaultTopicStats

(***************************************************************************)
(* Arithmetic on the fixed-point counters.                                 *)
(***************************************************************************)
RECURSIVE Sum(_, _)
Sum(f, S) == IF S = {} THEN 0
             ELSE LET x == CHOOSE y \in S : TRUE IN f[x] + Sum(f, S \ {x})

\* x *= decay alone: the decayed value is not snapped to zero
decay_counter_without_floor(x, decay, unit) == (x * decay.num) \div decay.den

\* x *= decay; if x < decay_to_zero { x = 0 }, for x in units of 1/unit
decay_counter(x, decay, unit) ==
  IF x * decay.num * params.decay_to_zero.den
       < params.decay_to_zero.num * unit * decay.den
  THEN 0
  ELSE (x * decay.num) \div decay.den

\* the decayed value is a whole number of units
ExactDecay(x, decay, unit) ==
  \/ x * decay.num * params.decay_to_zero.den
       < params.decay_to_zero.num * unit * decay.den
  \/ (x * decay.num) % decay.den = 0

(***************************************************************************)
(* PeerScore::score, in units of 1/Scale^2.                                *)
(***************************************************************************)
topic_score(topic_stats, topic_params) ==
  LET p1 == IF topic_stats.mesh_status.tag = "Active"
            THEN LET mesh_time == topic_stats.mesh_status.mesh_time
                     quantum == topic_params.time_in_mesh_quantum
                     v == IF mesh_time < topic_params.time_in_mesh_cap * quantum
                          THEN mesh_time
                          ELSE topic_params.time_in_mesh_cap * quantum
                 IN (v * topic_params.time_in_mesh_weight * Scale2) \div quantum
            ELSE 0
      p2 == topic_stats.first_message_deliveries * Scale
              * topic_params.first_message_deliveries_weight
      threshold == topic_params.mesh_message_deliveries_threshold * Scale
      p3 == IF /\ topic_stats.mesh_message_deliveries_active
               /\ topic_stats.mesh_message_deliveries < threshold
            THEN LET deficit == threshold - topic_stats.mesh_message_deliveries
                 IN deficit * deficit * topic_params.mesh_message_deliveries_weight
            ELSE 0
      p3b == topic_stats.mesh_failure_penalty
               * topic_params.mesh_failure_penalty_weight
      p4 == topic_stats.invalid_message_deliveries
              * topic_stats.invalid_message_deliveries
              * topic_params.invalid_message_deliveries_weight
  IN (p1 + p2 + p3 + p3b + p4) * topic_params.topic_weight

\* the summed topic scores before the topic score cap is applied
topics_score_uncapped(pstats) ==
  LET scored == (DOMAIN pstats.topics) \cap (DOMAIN params.topics)
      each == [t \in scored |-> topic_score(pstats.topics[t], params.topics[t])]
  IN Sum(each, scored)

topics_score(pstats) ==
  LET scored == (DOMAIN pstats.topics) \cap (DOMAIN params.topics)
      each == [t \in scored |-> topic_score(pstats.topics[t], params.topics[t])]
      total == Sum(each, scored)
  IN IF params.topic_score_cap > 0 /\ total > params.topic_score_cap * Scale2
     THEN params.topic_score_cap * Scale2
     ELSE total

\* P6 taken over every address of the index instead of the peer's known_ips
ip_colocation_over_index(pstats, ips) ==
  LET each == [ip \in DOMAIN ips |->
                 LET peers_in_ip == Cardinality(ips[ip]) IN
                 IF peers_in_ip > params.ip_colocation_factor_threshold
                 THEN LET surplus == peers_in_ip
                                       - params.ip_colocation_factor_threshold
                      IN surplus * surplus * Scale2
                           * params.ip_colocation_factor_weight
                 ELSE 0]
  IN Sum(each, DOMAIN ips)

\* P6 with p6 = surplus instead of surplus * surplus
ip_colocation_linear(pstats, ips) ==
  LET idx == DOMAIN pstats.known_ips
      each == [i \in idx |->
                 LET ip == pstats.known_ips[i] IN
                 IF ip \in params.ip_colocation_factor_whitelist THEN 0
                 ELSE IF ip \notin DOMAIN ips THEN 0
                 ELSE LET peers_in_ip == Cardinality(ips[ip]) IN
                      IF peers_in_ip > params.ip_colocation_factor_threshold
                      THEN (peers_in_ip - params.ip_colocation_factor_threshold)
                             * Scale2 * params.ip_colocation_factor_weight
                      ELSE 0]
  IN Sum(each, idx)

ip_colocation(pstats, ips) ==
  LET idx == DOMAIN pstats.known_ips
      each == [i \in idx |->
                 LET ip == pstats.known_ips[i] IN
                 IF ip \in params.ip_colocation_factor_whitelist THEN 0
                 ELSE IF ip \notin DOMAIN ips THEN 0
                 ELSE LET peers_in_ip == Cardinality(ips[ip]) IN
                      IF peers_in_ip > params.ip_colocation_factor_threshold
                      THEN LET surplus == peers_in_ip
                                            - params.ip_colocation_factor_threshold
                           IN surplus * surplus * Scale2
                                * params.ip_colocation_factor_weight
                      ELSE 0]
  IN Sum(each, idx)

score(stats, ips, peer_id) ==
  IF peer_id \notin DOMAIN stats THEN 0
  ELSE LET pstats == stats[peer_id]
           p7 == pstats.behaviour_penalty * pstats.behaviour_penalty
       IN topics_score(pstats) + ip_colocation(pstats, ips)
            + p7 * params.behaviour_penalty_weight

(***************************************************************************)
(* Counter updates.  Each takes and returns the whole peer_stats map.      *)
(***************************************************************************)
\* for topic_hash in msg.topics.iter() { ... }, Step applied to the peer's stats
RECURSIVE ForEachTopic(_, _, _)
ForEachTopic(Step(_, _), pstats, topics) ==
  IF topics = <<>> THEN pstats
  ELSE ForEachTopic(Step, Step(pstats, Head(topics)), Tail(topics))

invalid_delivery_on_topic(pstats, topic_hash) ==
  IF ~has_topic_stats(pstats, topic_hash) THEN pstats
  ELSE LET ps == stats_or_default_mut(pstats, topic_hash)
       IN [ps EXCEPT !.topics[topic_hash].invalid_message_deliveries = @ + Scale]

mark_invalid_message_delivery(stats, peer_id, msg) ==
  IF peer_id \notin DOMAIN stats THEN stats
  ELSE [stats EXCEPT
          ![peer_id] = ForEachTopic(invalid_delivery_on_topic, @, msg.topics)]

first_delivery_on_topic(pstats, topic_hash) ==
  IF ~has_topic_stats(pstats, topic_hash) THEN pstats
  ELSE LET ps == stats_or_default_mut(pstats, topic_hash)
           ts == ps.topics[topic_hash]
           fcap == params.topics[topic_hash].first_message_deliveries_cap * Scale
           first == IF ts.first_message_deliveries + Scale > fcap
                    THEN fcap
                    ELSE ts.first_message_deliveries + Scale
           mcap == params.topics[topic_hash].mesh_message_deliveries_cap * Scale
           mesh == IF ts.mesh_status.tag = "Active"
                   THEN IF ts.mesh_message_deliveries + Scale > mcap
                        THEN mcap
                        ELSE first + Scale
                   ELSE ts.mesh_message_deliveries
       IN [ps EXCEPT !.topics[topic_hash].first_message_deliveries = first,
                     !.topics[topic_hash].mesh_message_deliveries = mesh]

\* self.peer_stats.entry(peer_id).or_default() in place of get_mut(peer_id)
mark_first_message_delivery_inserting_peer(stats, peer_id, msg) ==
  LET known == IF peer_id \in DOMAIN stats THEN stats
               ELSE MapPut(stats, peer_id, DefaultPeerStats)
  IN [known EXCEPT
        ![peer_id] = ForEachTopic(first_delivery_on_topic, @, msg.topics)]

mark_first_message_delivery(stats, peer_id, msg) ==
  IF peer_id \notin DOMAIN stats THEN stats
  ELSE [stats EXCEPT
          ![peer_id] = ForEachTopic(first_delivery_on_topic, @, msg.topics)]

\* validated_time is <<>> for None and <<t>> for Some(t); t is Instant::now()
duplicate_delivery_on_topic(pstats, topic_hash, validated_time, t) ==
  IF ~has_topic_stats(pstats, topic_hash) THEN pstats
  ELSE LET ps == stats_or_default_mut(pstats, topic_hash)
           ts == ps.topics[topic_hash]
           topic_params == params.topics[topic_hash]
           cap == topic_params.mesh_message_deliveries_cap * Scale
       IN IF ts.mesh_status.tag = "Active" /\ validated_time # <<>>
             /\ ~(t > validated_time[1] + topic_params.mesh_message_deliveries_window)
          THEN [ps EXCEPT !.topics[topic_hash].mesh_message_deliveries =
                  IF @ + Scale > cap THEN cap ELSE @ + Scale]
          ELSE ps

mark_duplicate_message_delivery(stats, peer_id, msg, validated_time, t) ==
  IF peer_id \notin DOMAIN stats THEN stats
  ELSE LET Step(pstats, topic_hash) ==
             duplicate_delivery_on_topic(pstats, topic_hash, validated_time, t)
       IN [stats EXCEPT ![peer_id] = ForEachTopic(Step, @, msg.topics)]

\* Step(stats, peer) applied for every peer of a HashSet, in any order
RECURSIVE ForEachPeer(_, _, _)
ForEachPeer(Step(_, _), stats, peers) ==
  IF peers = {} THEN stats
  ELSE LET p == CHOOSE q \in peers : TRUE
       IN ForEachPeer(Step, Step(stats, p), peers \ {p})

(***************************************************************************)
(* The operations of PeerScore, as functions of the state they read.       *)
(* t is the value Instant::now() returns during the call.                  *)
(***************************************************************************)
\* PeerScore::add_penalty
add_penalty(stats, peer_id, count) ==
  IF peer_id \notin DOMAIN stats THEN stats
  ELSE [stats EXCEPT ![peer_id].behaviour_penalty = @ + count * Scale]

\* PeerScore::refresh_scores: is the peer thrown away by the retain closure
expired(pstats, t) ==
  pstats.status.tag = "Disconnected" /\ t > pstats.status.expire

\* refresh_scores activating at mesh_time >= mesh_message_deliveries_activation
refresh_topic_activating_early(topic_stats, topic_params, t) ==
  LET decayed ==
        [topic_stats EXCEPT
           !.first_message_deliveries =
              decay_counter(@, topic_params.first_message_deliveries_decay, Scale),
           !.mesh_message_deliveries =
              decay_counter(@, topic_params.mesh_message_deliveries_decay, Scale),
           !.mesh_failure_penalty =
              decay_counter(@, topic_params.mesh_failure_penalty_decay, Scale2),
           !.invalid_message_deliveries =
              decay_counter(@, topic_params.invalid_message_deliveries_decay, Scale)]
  IN IF topic_stats.mesh_status.tag = "Active"
     THEN LET mesh_time == t - topic_stats.mesh_status.graft_time
          IN [decayed EXCEPT
                !.mesh_status = Active(topic_stats.mesh_status.graft_time, mesh_time),
                !.mesh_message_deliveries_active =
                   IF mesh_time >= topic_params.mesh_message_deliveries_activation
                   THEN TRUE ELSE @]
     ELSE decayed

\* PeerScore::refresh_scores: the decay of one TopicStats of a connected peer
refresh_topic(topic_stats, topic_params, t) ==
  LET decayed ==
        [topic_stats EXCEPT
           !.first_message_deliveries =
              decay_counter(@, topic_params.first_message_deliveries_decay, Scale),
           !.mesh_message_deliveries =
              decay_counter(@, topic_params.mesh_message_deliveries_decay, Scale),
           !.mesh_failure_penalty =
              decay_counter(@, topic_params.mesh_failure_penalty_decay, Scale2),
           !.invalid_message_deliveries =
              decay_counter(@, topic_params.invalid_message_deliveries_decay, Scale)]
  IN IF topic_stats.mesh_status.tag = "Active"
     THEN LET mesh_time == t - topic_stats.mesh_status.graft_time
          IN [decayed EXCEPT
                !.mesh_status = Active(topic_stats.mesh_status.graft_time, mesh_time),
                !.mesh_message_deliveries_active =
                   IF mesh_time > topic_params.mesh_message_deliveries_activation
                   THEN TRUE ELSE @]
     ELSE decayed

\* PeerScore::refresh_scores: the decay of a connected peer's counters
decay_peer(pstats, t) ==
  [pstats EXCEPT
     !.topics = [topic \in DOMAIN pstats.topics |->
                   IF topic \in DOMAIN params.topics
                   THEN refresh_topic(pstats.topics[topic], params.topics[topic], t)
                   ELSE pstats.topics[topic]],
     !.behaviour_penalty = decay_counter(@, params.behaviour_penalty_decay, Scale)]

\* the retain closure without its Disconnected branch: every kept peer decays
refresh_peer_decays_retained(pstats, t) == decay_peer(pstats, t)

\* PeerScore::refresh_scores: one peer the retain closure keeps
refresh_peer(pstats, t) ==
  IF pstats.status.tag = "Disconnected" THEN pstats
  ELSE decay_peer(pstats, t)

\* PeerScore::refresh_scores: the new peer_stats
refresh_scores_stats(stats, t) ==
  [p \in { q \in DOMAIN stats : ~expired(stats[q], t) } |-> refresh_peer(stats[p], t)]

\* PeerScore::refresh_scores: the new peer_ips
refresh_scores_ips(stats, ips, t) ==
  [ip \in DOMAIN ips |->
     ips[ip] \ { p \in DOMAIN stats :
                   expired(stats[p], t) /\ ip \in Range(stats[p].known_ips) }]

\* every decay of refresh_scores yields a whole number of units
ExactRefresh(stats) ==
  \A p \in DOMAIN stats :
    stats[p].status.tag = "Connected" =>
      /\ ExactDecay(stats[p].behaviour_penalty, params.behaviour_penalty_decay, Scale)
      /\ \A topic \in (DOMAIN stats[p].topics) \cap (DOMAIN params.topics) :
           LET ts == stats[p].topics[topic]
               tp == params.topics[topic]
           IN /\ ExactDecay(ts.first_message_deliveries,
                            tp.first_message_deliveries_decay, Scale)
              /\ ExactDecay(ts.mesh_message_deliveries,
                            tp.mesh_message_deliveries_decay, Scale)
              /\ ExactDecay(ts.mesh_failure_penalty,
                            tp.mesh_failure_penalty_decay, Scale2)
              /\ ExactDecay(ts.invalid_message_deliveries,
                            tp.invalid_message_deliveries_decay, Scale)

\* PeerScore::get_ips_mut, and a write of ip at index i through the slice
get_ips_mut(stats, peer_id, i, ip) ==
  IF peer_id \notin DOMAIN stats THEN stats
  ELSE [stats EXCEPT ![peer_id].known_ips[i] = ip]

\* peer_stats.insert(peer_id, PeerStats::default()) in place of
\* entry(peer_id).or_default(): an existing entry is overwritten
add_peer_stats_fresh(stats, peer_id, known_ips) ==
  MapPut(stats, peer_id, [DefaultPeerStats EXCEPT !.known_ips = known_ips])

\* PeerScore::add_peer: the new peer_stats
add_peer_stats(stats, peer_id, known_ips) ==
  LET entry == IF peer_id \in DOMAIN stats THEN stats[peer_id] ELSE DefaultPeerStats
  IN MapPut(stats, peer_id,
            [entry EXCEPT !.status = Connected, !.known_ips = known_ips])

\* PeerScore::add_peer: the new peer_ips
add_peer_ips(ips, peer_id, known_ips) ==
  [ip \in (DOMAIN ips) \cup Range(known_ips) |->
     IF ip \in Range(known_ips)
     THEN (IF ip \in DOMAIN ips THEN ips[ip] ELSE {}) \cup {peer_id}
     ELSE ips[ip]]

\* remove_peer retaining a topic without zeroing first_message_deliveries
retain_topic_keeping_first(topic_stats, topic) ==
  LET penalised ==
        IF topic \in DOMAIN params.topics
        THEN LET threshold ==
                   params.topics[topic].mesh_message_deliveries_threshold * Scale
             IN IF /\ in_mesh(topic_stats)
                   /\ topic_stats.mesh_message_deliveries_active
                   /\ topic_stats.mesh_message_deliveries < threshold
                THEN LET deficit == threshold - topic_stats.mesh_message_deliveries
                     IN [topic_stats EXCEPT
                           !.mesh_failure_penalty = @ + deficit * deficit]
                ELSE topic_stats
        ELSE topic_stats
  IN [penalised EXCEPT !.mesh_status = InActive]

\* PeerScore::remove_peer: the retained TopicStats of one topic
retain_topic(topic_stats, topic) ==
  LET zeroed == [topic_stats EXCEPT !.first_message_deliveries = 0]
      penalised ==
        IF topic \in DOMAIN params.topics
        THEN LET threshold ==
                   params.topics[topic].mesh_message_deliveries_threshold * Scale
             IN IF /\ in_mesh(zeroed)
                   /\ zeroed.mesh_message_deliveries_active
                   /\ zeroed.mesh_message_deliveries < threshold
                THEN LET deficit == threshold - zeroed.mesh_message_deliveries
                     IN [zeroed EXCEPT !.mesh_failure_penalty = @ + deficit * deficit]
                ELSE zeroed
        ELSE zeroed
  IN [penalised EXCEPT !.mesh_status = InActive]

\* PeerScore::remove_peer: the new peer_stats (peer_ips is not written)
remove_peer(stats, ips, peer_id, t) ==
  IF score(stats, ips, peer_id) > 0 THEN MapDel(stats, peer_id)
  ELSE IF peer_id \notin DOMAIN stats THEN stats
  ELSE [stats EXCEPT
          ![peer_id].topics = [topic \in DOMAIN @ |-> retain_topic(@[topic], topic)],
          ![peer_id].status = Disconnected(t + params.retain_score)]

\* PeerScore::graft
graft(stats, peer_id, topic, t) ==
  IF peer_id \notin DOMAIN stats THEN stats
  ELSE IF ~has_topic_stats(stats[peer_id], topic) THEN stats
  ELSE LET ps == stats_or_default_mut(stats[peer_id], topic)
       IN [stats EXCEPT ![peer_id] =
             [ps EXCEPT !.topics[topic].mesh_status = new_active(t),
                        !.topics[topic].mesh_message_deliveries_active = FALSE]]

\* prune charging the deficit without looking at
\* mesh_message_deliveries_active
prune_ignoring_activation(stats, peer_id, topic) ==
  IF peer_id \notin DOMAIN stats THEN stats
  ELSE IF ~has_topic_stats(stats[peer_id], topic) THEN stats
  ELSE LET ps == stats_or_default_mut(stats[peer_id], topic)
           ts == ps.topics[topic]
           threshold == params.topics[topic].mesh_message_deliveries_threshold * Scale
           penalty == IF ts.mesh_message_deliveries < threshold
                      THEN LET deficit == threshold - ts.mesh_message_deliveries
                           IN deficit * deficit
                      ELSE 0
       IN [stats EXCEPT ![peer_id] =
             [ps EXCEPT !.topics[topic].mesh_failure_penalty = @ + penalty,
                        !.topics[topic].mesh_message_deliveries_active = FALSE]]

\* PeerScore::prune
prune(stats, peer_id, topic) ==
  IF peer_id \notin DOMAIN stats THEN stats
  ELSE IF ~has_topic_stats(stats[peer_id], topic) THEN stats
  ELSE LET ps == stats_or_default_mut(stats[peer_id], topic)
           ts == ps.topics[topic]
           threshold == params.topics[topic].mesh_message_deliveries_threshold * Scale
           penalty == IF /\ ts.mesh_message_deliveries_active
                         /\ ts.mesh_message_deliveries < threshold
                      THEN LET deficit == threshold - ts.mesh_message_deliveries
                           IN deficit * deficit
                      ELSE 0
       IN [stats EXCEPT ![peer_id] =
             [ps EXCEPT !.topics[topic].mesh_failure_penalty = @ + penalty,
                        !.topics[topic].mesh_message_deliveries_active = FALSE]]

\* PeerScore::remove_ips: the new peer_ips
remove_ips(ips, peer_id, list) ==
  [ip \in DOMAIN ips |-> IF ip \in Range(list) THEN ips[ip] \ {peer_id} ELSE ips[ip]]

(***************************************************************************)
(* Delivery tracking.  deliveries maps a message id to its DeliveryRecord, *)
(* delivery_times maps it to the Instant the time cache holds for the      *)
(* entry.  The cache is an LruCache with an expiry duration: an access     *)
(* drops the entries whose time is more than TIME_CACHE_DURATION back, and *)
(* entry(), insert() and remove() followed by insert() leave the accessed  *)
(* entry with the time of the access.                                      *)
(***************************************************************************)
\* the number of seconds delivery messages are stored in the cache
TIME_CACHE_DURATION == 120

\* the entry whose time is stamp has expired at t
cache_expired(stamp, t) == stamp + TIME_CACHE_DURATION < t

\* the records an access at t finds: the expired ones are dropped first
unexpired(records, times, t) ==
  [id \in { k \in DOMAIN records : ~cache_expired(times[k], t) } |-> records[id]]

\* the times an access of id at t leaves: the expired entries are gone and the
\* entry of id, kept or created, has time t
touched(records, times, id, t) ==
  [k \in { j \in DOMAIN records : ~cache_expired(times[j], t) } \cup {id} |->
     IF k = id THEN t ELSE times[k]]

\* deliveries.entry(id).or_insert_with(DeliveryRecord::default), and
\* deliveries.remove(id).unwrap_or_else(DeliveryRecord::default): the record
record_or_default(records, id, t) ==
  IF id \in DOMAIN records THEN records[id] ELSE DefaultDeliveryRecord(t)

\* deliver_message without its "first delivery trace" test: always Valid
deliver_message_records_unchecked(records, from, msg, t) ==
  MapPut(records, msg_id(msg),
         [record_or_default(records, msg_id(msg), t)
            EXCEPT !.status = "Valid", !.validated = t])

\* PeerScore::deliver_message: the new deliveries
deliver_message_records(records, from, msg, t) ==
  LET record == record_or_default(records, msg_id(msg), t)
  IN IF record.status # "Unknown" THEN MapPut(records, msg_id(msg), record)
     ELSE MapPut(records, msg_id(msg),
                 [record EXCEPT !.status = "Valid", !.validated = t])

\* PeerScore::deliver_message: the new peer_stats
deliver_message_stats(stats, records, from, msg, t) ==
  LET first == mark_first_message_delivery(stats, from, msg)
      record == record_or_default(records, msg_id(msg), t)
      Step(st, peer) == mark_duplicate_message_delivery(st, peer, msg, <<>>, t)
  IN IF record.status # "Unknown" THEN first
     ELSE ForEachPeer(Step, first, record.peers \ {from})

\* PeerScore::reject_message: the new deliveries
reject_message_records(records, from, msg, reason, t) ==
  IF reason \in {"SelfOrigin", "BlackListenSource", "ValidationQueueFull"}
  THEN records
  ELSE LET record == record_or_default(records, msg_id(msg), t)
       IN IF record.status # "Unknown" THEN MapPut(records, msg_id(msg), record)
          ELSE IF reason = "ValidationThrottled"
          THEN MapPut(records, msg_id(msg),
                      [record EXCEPT !.status = "Throttled", !.peers = {}])
          ELSE IF reason = "ValidationIgnored"
          THEN MapPut(records, msg_id(msg),
                      [record EXCEPT !.status = "Ignored", !.peers = {}])
          ELSE MapPut(records, msg_id(msg),
                      [record EXCEPT !.status = "Invalid", !.peers = {}])

\* reject_message without the early returns of its ValidationThrottled and
\* ValidationIgnored arms: the sender is penalised for them too
reject_message_stats_penalising(stats, records, from, msg, reason, t) ==
  IF reason = "SelfOrigin" THEN mark_invalid_message_delivery(stats, from, msg)
  ELSE IF reason \in {"BlackListenSource", "ValidationQueueFull"} THEN stats
  ELSE IF record_or_default(records, msg_id(msg), t).status # "Unknown" THEN stats
  ELSE mark_invalid_message_delivery(stats, from, msg)

\* PeerScore::reject_message: the new peer_stats
reject_message_stats(stats, records, from, msg, reason, t) ==
  IF reason = "SelfOrigin" THEN mark_invalid_message_delivery(stats, from, msg)
  ELSE IF reason \in {"BlackListenSource", "ValidationQueueFull"} THEN stats
  ELSE LET record == record_or_default(records, msg_id(msg), t)
           Step(st, peer) == mark_invalid_message_delivery(st, peer, msg)
       IN IF record.status # "Unknown" THEN stats
          ELSE IF reason \in {"ValidationThrottled", "ValidationIgnored"} THEN stats
          ELSE ForEachPeer(Step, mark_invalid_message_delivery(stats, from, msg),
                           record.peers)

\* duplicated_message with record.peers.insert(from) in its Unknown and Valid
\* arms: the reporting peer is kept in the record
duplicated_message_records_inserting(records, from, msg, t) ==
  LET record == record_or_default(records, msg_id(msg), t)
  IN IF from \in record.peers THEN MapPut(records, msg_id(msg), record)
     ELSE IF record.status \in {"Unknown", "Valid"}
     THEN MapPut(records, msg_id(msg), [record EXCEPT !.peers = @ \cup {from}])
     ELSE MapPut(records, msg_id(msg), record)

\* PeerScore::duplicated_message: the new deliveries
duplicated_message_records(records, from, msg, t) ==
  LET record == record_or_default(records, msg_id(msg), t)
  IN IF from \in record.peers THEN MapPut(records, msg_id(msg), record)
     ELSE IF record.status \in {"Unknown", "Valid"}
     THEN MapPut(records, msg_id(msg), [record EXCEPT !.peers = @ \ {from}])
     ELSE MapPut(records, msg_id(msg), record)

\* PeerScore::duplicated_message: the new peer_stats
duplicated_message_stats(stats, records, from, msg, t) ==
  LET record == record_or_default(records, msg_id(msg), t)
  IN IF from \in record.peers THEN stats
     ELSE IF record.status = "Valid"
     THEN mark_duplicate_message_delivery(stats, from, msg, <<record.validated>>, t)
     ELSE IF record.status = "Invalid"
     THEN mark_invalid_message_delivery(stats, from, msg)
     ELSE stats

\* PeerScore::duplicated_message, the DeliveryStatus::Unknown arm: "track the
\* peer delivery and wait for the Deliver/Reject notification" (history only)
observe_duplicate(obs, records, from, msg, t) ==
  LET record == record_or_default(records, msg_id(msg), t)
      seen == IF msg_id(msg) \in DOMAIN obs /\ msg_id(msg) \in DOMAIN records
              THEN obs[msg_id(msg)] ELSE {}
  IN IF from \notin record.peers /\ record.status = "Unknown"
     THEN MapPut(obs, msg_id(msg), seen \cup {from})
     ELSE obs

(***************************************************************************)
(* The state machine.                                                      *)
(***************************************************************************)
\* history of the mesh sessions: a graft that takes effect starts one
graft_session(hist, stats, peer_id, topic, t) ==
  IF peer_id \in DOMAIN stats /\ has_topic_stats(stats[peer_id], topic)
  THEN MapPut(hist, <<peer_id, topic>>, [grafted |-> t, charges |-> 0])
  ELSE hist

\* history of the mesh sessions across a call that erases peers or writes
\* mesh_failure_penalty (add_peer, remove_peer, prune, refresh_scores), taking
\* peer_stats from old to new: the sessions of an erased peer are forgotten,
\* and a session whose mesh_failure_penalty was raised counts one more charge
\* (counted up to 2)
observe_sessions(hist, old, new) ==
  [pair \in { q \in DOMAIN hist : q[1] \in DOMAIN new } |->
     IF TopicStatsOf(new, pair[1], pair[2]).mesh_failure_penalty
          > TopicStatsOf(old, pair[1], pair[2]).mesh_failure_penalty
     THEN [hist[pair] EXCEPT !.charges = IF @ < 2 THEN @ + 1 ELSE @]
     ELSE hist[pair]]

\* the counters the model does not cap stay within the explored range
WithinBounds(stats) ==
  \A p \in DOMAIN stats :
    /\ stats[p].behaviour_penalty <= MaxPenalty * Scale
    /\ \A topic \in DOMAIN stats[p].topics :
         /\ stats[p].topics[topic].invalid_message_deliveries <= MaxPenalty * Scale
         /\ topic \in DOMAIN params.topics =>
              LET threshold == params.topics[topic].mesh_message_deliveries_threshold
              IN stats[p].topics[topic].mesh_failure_penalty
                   <= MaxPenalty * threshold * threshold * Scale2

\* the record kept in last: the method, its peer and its other arguments
Call(op, peer_id, args) == [op |-> op, peer |-> peer_id, args |-> args]

\* PeerScore::new
Init ==
  /\ peer_stats = EmptyMap
  /\ peer_ips = EmptyMap
  /\ deliveries = EmptyMap
  /\ now = 0
  /\ last = Call("new", "", <<>>)
  /\ observers = EmptyMap
  /\ delivery_times = EmptyMap
  /\ sessions = EmptyMap

\* the clock the engine reads through Instant::now() advances
Tick ==
  /\ now + 60 <= Horizon
  /\ now' = now + 60
  /\ UNCHANGED <<peer_stats, peer_ips, deliveries>>
  /\ UNCHANGED <<observers, delivery_times, sessions>>
  /\ last' = Call("tick", "", <<>>)

AddPeer(peer_id, known_ips) ==
  /\ peer_stats' = add_peer_stats(peer_stats, peer_id, known_ips)
  /\ peer_ips' = add_peer_ips(peer_ips, peer_id, known_ips)
  /\ UNCHANGED <<deliveries, now>>
  /\ UNCHANGED <<observers, delivery_times>>
  /\ sessions' = observe_sessions(sessions, peer_stats, peer_stats')
  /\ last' = Call("add_peer", peer_id, <<known_ips>>)

RemovePeer(peer_id) ==
  /\ peer_stats' = remove_peer(peer_stats, peer_ips, peer_id, now)
  /\ WithinBounds(peer_stats')
  /\ UNCHANGED <<peer_ips, deliveries, now>>
  /\ UNCHANGED <<observers, delivery_times>>
  /\ sessions' = observe_sessions(sessions, peer_stats, peer_stats')
  /\ last' = Call("remove_peer", peer_id, <<>>)

RemoveIps(peer_id, list) ==
  /\ peer_ips' = remove_ips(peer_ips, peer_id, list)
  /\ UNCHANGED <<peer_stats, deliveries, now>>
  /\ UNCHANGED <<observers, delivery_times, sessions>>
  /\ last' = Call("remove_ips", peer_id, <<list>>)

GetIpsMut(peer_id, i, ip) ==
  /\ peer_id \in DOMAIN peer_stats
  /\ i \in DOMAIN peer_stats[peer_id].known_ips
  /\ peer_stats' = get_ips_mut(peer_stats, peer_id, i, ip)
  /\ UNCHANGED <<peer_ips, deliveries, now>>
  /\ UNCHANGED <<observers, delivery_times, sessions>>
  /\ last' = Call("get_ips_mut", peer_id, <<i, ip>>)

AddPenalty(peer_id, count) ==
  /\ peer_stats' = add_penalty(peer_stats, peer_id, count)
  /\ WithinBounds(peer_stats')
  /\ UNCHANGED <<peer_ips, deliveries, now>>
  /\ UNCHANGED <<observers, delivery_times>>
  /\ UNCHANGED sessions
  /\ last' = Call("add_penalty", peer_id, <<count>>)

RefreshScores ==
  /\ ExactRefresh(peer_stats)
  /\ peer_stats' = refresh_scores_stats(peer_stats, now)
  /\ peer_ips' = refresh_scores_ips(peer_stats, peer_ips, now)
  /\ UNCHANGED <<deliveries, now>>
  /\ UNCHANGED <<observers, delivery_times>>
  /\ sessions' = observe_sessions(sessions, peer_stats, peer_stats')
  /\ last' = Call("refresh_scores", "", <<>>)

Graft(peer_id, topic) ==
  /\ peer_stats' = graft(peer_stats, peer_id, topic, now)
  /\ UNCHANGED <<peer_ips, deliveries, now>>
  /\ UNCHANGED <<observers, delivery_times>>
  /\ sessions' = graft_session(sessions, peer_stats, peer_id, topic, now)
  /\ last' = Call("graft", peer_id, <<topic>>)

Prune(peer_id, topic) ==
  /\ peer_stats' = prune(peer_stats, peer_id, topic)
  /\ WithinBounds(peer_stats')
  /\ UNCHANGED <<peer_ips, deliveries, now>>
  /\ UNCHANGED <<observers, delivery_times>>
  /\ sessions' = observe_sessions(sessions, peer_stats, peer_stats')
  /\ last' = Call("prune", peer_id, <<topic>>)

DeliverMessage(from, msg) ==
  LET records == unexpired(deliveries, delivery_times, now) IN
  /\ peer_stats' = deliver_message_stats(peer_stats, records, from, msg, now)
  /\ deliveries' = deliver_message_records(records, from, msg, now)
  /\ delivery_times' = touched(deliveries, delivery_times, msg_id(msg), now)
  /\ UNCHANGED <<peer_ips, now>>
  /\ UNCHANGED observers
  /\ UNCHANGED sessions
  /\ last' = Call("deliver_message", from, <<msg>>)

RejectMessage(from, msg, reason) ==
  LET records == IF reason \in UntrackedReasons THEN deliveries
                 ELSE unexpired(deliveries, delivery_times, now) IN
  /\ peer_stats' = reject_message_stats(peer_stats, records, from, msg, reason, now)
  /\ deliveries' = reject_message_records(records, from, msg, reason, now)
  /\ delivery_times' = IF reason \in UntrackedReasons THEN delivery_times
                       ELSE touched(deliveries, delivery_times, msg_id(msg), now)
  /\ WithinBounds(peer_stats')
  /\ UNCHANGED <<peer_ips, now>>
  /\ UNCHANGED observers
  /\ UNCHANGED sessions
  /\ last' = Call("reject_message", from, <<msg, reason>>)

DuplicatedMessage(from, msg) ==
  LET records == unexpired(deliveries, delivery_times, now) IN
  /\ peer_stats' = duplicated_message_stats(peer_stats, records, from, msg, now)
  /\ deliveries' = duplicated_message_records(records, from, msg, now)
  /\ delivery_times' = touched(deliveries, delivery_times, msg_id(msg), now)
  /\ WithinBounds(peer_stats')
  /\ UNCHANGED <<peer_ips, now>>
  /\ observers' = observe_duplicate(observers, records, from, msg, now)
  /\ UNCHANGED sessions
  /\ last' = Call("duplicated_message", from, <<msg>>)

\* score with P1 read off the clock: the mesh_time of a topic in the mesh is
\* the time since graft_time at the instant of the query, not the value
\* refresh_scores stored
ScoreReadingClock(peer_id) ==
  LET by_clock(ts) ==
        IF ts.mesh_status.tag = "Active"
        THEN [ts EXCEPT !.mesh_status =
                Active(ts.mesh_status.graft_time, now - ts.mesh_status.graft_time)]
        ELSE ts
      current == [p \in DOMAIN peer_stats |->
                    [peer_stats[p] EXCEPT !.topics =
                       [topic \in DOMAIN peer_stats[p].topics |->
                          by_clock(peer_stats[p].topics[topic])]]]
  IN /\ UNCHANGED peer_stats
     /\ UNCHANGED <<peer_ips, deliveries, now>>
     /\ UNCHANGED <<observers, delivery_times, sessions>>
     /\ last' = Call("score", peer_id, <<score(current, peer_ips, peer_id)>>)

\* PeerScore::score: every access is a get, an iter or a len on a HashMap, a
\* HashSet or a Vec of &self, the time cache and Instant::now() are not
\* touched; the value returned is kept in last
Score(peer_id) ==
  /\ UNCHANGED peer_stats
  /\ UNCHANGED <<peer_ips, deliveries, now>>
  /\ UNCHANGED <<observers, delivery_times, sessions>>
  /\ last' = Call("score", peer_id, <<score(peer_stats, peer_ips, peer_id)>>)

Next ==
  \/ Tick
  \/ \E p \in Peers, l \in IpLists : AddPeer(p, l)
  \/ \E p \in Peers : RemovePeer(p)
  \/ \E p \in Peers, l \in IpLists : RemoveIps(p, l)
  \/ \E p \in Peers, i \in 1..2, ip \in Ips : GetIpsMut(p, i, ip)
  \/ \E p \in Peers, c \in 1..MaxPenalty : AddPenalty(p, c)
  \/ RefreshScores
  \/ \E p \in Peers, topic \in Topics : Graft(p, topic)
  \/ \E p \in Peers, topic \in Topics : Prune(p, topic)
  \/ \E p \in Peers, m \in Messages : DeliverMessage(p, m)
  \/ \E p \in Peers, m \in Messages, r \in RejectReasons : RejectMessage(p, m, r)
  \/ \E p \in Peers, m \in Messages : DuplicatedMessage(p, m)
  \/ \E p \in Peers : Score(p)

Spec == Init /\ [][Next]_vars

(***************************************************************************)
(* The life of one peer: connection, retention, decay and eviction, with   *)
(* the message events that feed its counters.                              *)
(***************************************************************************)
NextLifecycle ==
  \/ Tick
  \/ \E l \in {<<>>, <<"X">>} : AddPeer("A", l)
  \/ RemovePeer("A")
  \/ \E c \in 1..MaxPenalty : AddPenalty("A", c)
  \/ RefreshScores
  \/ Graft("A", "T")
  \/ Prune("A", "T")
  \/ \E m \in Messages : DeliverMessage("A", m)
  \/ \E m \in Messages : RejectMessage("A", m, "SelfOrigin")

SpecLifecycle == Init /\ [][NextLifecycle]_vars

(***************************************************************************)
(* Message events reported by two peers for one message, at one instant.   *)
(***************************************************************************)
NextDelivery ==
  \/ \E p \in Peers : AddPeer(p, <<>>)
  \/ \E p \in Peers, topic \in Topics : Graft(p, topic)
  \/ \E p \in Peers, topic \in Topics : Prune(p, topic)
  \/ \E p \in Peers, m \in Messages : DeliverMessage(p, m)
  \/ \E p \in Peers, m \in Messages, r \in RejectReasons : RejectMessage(p, m, r)
  \/ \E p \in Peers, m \in Messages : DuplicatedMessage(p, m)

SpecDelivery == Init /\ [][NextDelivery]_vars

(***************************************************************************)
(* The address index: two peers connecting from and leaving two addresses. *)
(***************************************************************************)
NextIps ==
  \/ Tick
  \/ \E p \in Peers, l \in IpLists : AddPeer(p, l)
  \/ \E p \in Peers : RemovePeer(p)
  \/ \E p \in Peers, l \in IpLists : RemoveIps(p, l)
  \/ \E p \in Peers, ip \in Ips : GetIpsMut(p, 1, ip)
  \/ RefreshScores
  \/ \E m \in Messages : DeliverMessage("A", m)

SpecIps == Init /\ [][NextIps]_vars

(***************************************************************************)
(* Score queries: three peers sharing a plain and a whitelisted address,   *)
(* one of them earning and losing reputation, at one instant: a peer that  *)
(* leaves is retained or erased by remove_peer, never evicted.             *)
(***************************************************************************)
ScorePeers == {"A", "B", "C"}
ScoreIpLists == {<<>>, <<"X">>, <<"X", "W">>}

NextScore ==
  \/ \E p \in ScorePeers, l \in ScoreIpLists : AddPeer(p, l)
  \/ \E p \in ScorePeers : RemovePeer(p)
  \/ \E c \in 1..MaxPenalty : AddPenalty("A", c)
  \/ \E m \in Messages : DeliverMessage("A", m)
  \/ \E p \in ScorePeers : Score(p)

SpecScore == Init /\ [][NextScore]_vars

(***************************************************************************)
(* The delivery cache over time: one peer, in and out of the mesh of the   *)
(* scored topic, reporting one message while the clock runs past the       *)
(* cache's expiry duration.                                                *)
(***************************************************************************)
CacheHorizon == TIME_CACHE_DURATION + MaxTicks * 60

\* the clock advances, up to CacheHorizon
Elapse ==
  /\ now + 60 <= CacheHorizon
  /\ now' = now + 60
  /\ UNCHANGED <<peer_stats, peer_ips, deliveries>>
  /\ UNCHANGED <<observers, delivery_times, sessions>>
  /\ last' = Call("tick", "", <<>>)

NextCache ==
  \/ Elapse
  \/ AddPeer("A", <<>>)
  \/ Graft("A", "T")
  \/ \E m \in Messages : DeliverMessage("A", m)
  \/ \E m \in Messages, r \in RejectReasons : RejectMessage("A", m, r)
  \/ \E m \in Messages : DuplicatedMessage("A", m)

SpecCache == Init /\ [][NextCache]_vars

(***************************************************************************)
(* Score queries over time: peer A, alone or sharing an address with B,    *)
(* joins the mesh, delivers, is penalised and refreshed while the clock    *)
(* runs; the scores of A and B are asked at any instant, with time passing *)
(* between two queries.                                                    *)
(***************************************************************************)
\* time passes without the engine being called: last keeps the latest call
Wait ==
  /\ now + 60 <= CacheHorizon
  /\ now' = now + 60
  /\ UNCHANGED <<peer_stats, peer_ips, deliveries, last>>
  /\ UNCHANGED <<observers, delivery_times, sessions>>

NextQuery ==
  \/ Wait
  \/ \E l \in {<<>>, <<"X">>} : AddPeer("A", l)
  \/ AddPeer("B", <<"X">>)
  \/ Graft("A", "T")
  \/ RefreshScores
  \/ \E c \in 1..MaxPenalty : AddPenalty("A", c)
  \/ \E m \in Messages : DeliverMessage("A", m)
  \/ \E p \in Peers : Score(p)

SpecQuery == Init /\ [][NextQuery]_vars

(***************************************************************************)
(* Properties.                                                             *)
(***************************************************************************)
ScoredTopicsOf(stats, p) == (DOMAIN stats[p].topics) \cap (DOMAIN params.topics)

\* C1: for every peer and scored topic, first_message_deliveries and
\* mesh_message_deliveries never exceed their caps.
C1_DeliveriesWithinCaps ==
  \A p \in DOMAIN peer_stats : \A topic \in ScoredTopicsOf(peer_stats, p) :
    /\ peer_stats[p].topics[topic].first_message_deliveries
         <= params.topics[topic].first_message_deliveries_cap * Scale
    /\ peer_stats[p].topics[topic].mesh_message_deliveries
         <= params.topics[topic].mesh_message_deliveries_cap * Scale

\* C2: a message earns a first-delivery credit at most once, whoever reports
\* it and however often: where nothing decays, the first_message_deliveries of
\* all peers on a scored topic sum to at most the number of distinct messages.
C2_OneFirstDeliveryPerMessage ==
  \A topic \in DOMAIN params.topics :
    Sum([p \in DOMAIN peer_stats |->
           TopicStatsOf(peer_stats, p, topic).first_message_deliveries],
        DOMAIN peer_stats)
      <= Scale * Cardinality({ msg_id(m) : m \in Messages })

\* C3: duplicated_message(p, m) called twice in a row leaves the counters and
\* the delivery record as one call leaves them, whatever the record's status.
C3_DuplicateIsIdempotent ==
  \A p \in Peers, m \in Messages :
    LET stats1 == duplicated_message_stats(peer_stats, deliveries, p, m, now)
        records1 == duplicated_message_records(deliveries, p, m, now)
        stats2 == duplicated_message_stats(stats1, records1, p, m, now)
        records2 == duplicated_message_records(records1, p, m, now)
    IN stats2 = stats1 /\ records2 = records1

\* the reject reasons whose record ends Invalid
InvalidReasons == {"MissingSignature", "InvalidSignature", "BlacklistedPeer"}

\* C4: when reject_message marks a message Invalid, the rejecting peer and
\* every peer that reported the message as a duplicate while its record was
\* Unknown get invalid_message_deliveries + 1 on each scored topic of it.
C4_InvalidPenalisesAllRelayers ==
  [][ ( /\ last'.op = "reject_message"
        /\ last'.args[2] \in InvalidReasons
        /\ record_or_default(deliveries, msg_id(last'.args[1]), now).status
             = "Unknown" )
      => LET msg == last'.args[1]
             seen == IF msg_id(msg) \in DOMAIN observers
                     THEN observers[msg_id(msg)] ELSE {}
         IN \A p \in (seen \cup {last'.peer}) \cap DOMAIN peer_stats :
              \A topic \in Range(msg.topics) \cap DOMAIN params.topics :
                TopicStatsOf(peer_stats', p, topic).invalid_message_deliveries
                  = TopicStatsOf(peer_stats, p, topic).invalid_message_deliveries
                      + Scale ]_vars

\* C5: p is in peer_ips[ip] exactly when ip is in peer_stats[p].known_ips.
C5_IpIndexAgrees ==
  \A p \in Peers, ip \in Ips :
    (ip \in DOMAIN peer_ips /\ p \in peer_ips[ip])
      <=> (p \in DOMAIN peer_stats /\ ip \in Range(peer_stats[p].known_ips))

\* C6: every peer held in a peer_ips set has a PeerStats entry.
C6_IndexedPeersHaveStats ==
  \A ip \in DOMAIN peer_ips : peer_ips[ip] \subseteq DOMAIN peer_stats

\* behaviour_penalty and the invalid_message_deliveries of every topic
NegativeReputation(pstats) ==
  <<pstats.behaviour_penalty,
    [topic \in DOMAIN pstats.topics |->
       pstats.topics[topic].invalid_message_deliveries]>>

\* C7: remove_peer that retains a peer, every refresh_scores that keeps it, and
\* the add_peer that reconnects it leave behaviour_penalty and every
\* invalid_message_deliveries as they were, and that add_peer sets Connected.
C7_ReputationSurvivesReconnect ==
  [][ \A p \in DOMAIN peer_stats :
        /\ ( /\ last'.op = "remove_peer" /\ last'.peer = p
             /\ score(peer_stats, peer_ips, p) <= 0 )
           => /\ p \in DOMAIN peer_stats'
              /\ peer_stats'[p].status.tag = "Disconnected"
              /\ NegativeReputation(peer_stats'[p]) = NegativeReputation(peer_stats[p])
        /\ ( /\ last'.op = "refresh_scores"
             /\ peer_stats[p].status.tag = "Disconnected"
             /\ p \in DOMAIN peer_stats' )
           => NegativeReputation(peer_stats'[p]) = NegativeReputation(peer_stats[p])
        /\ ( /\ last'.op = "add_peer" /\ last'.peer = p
             /\ peer_stats[p].status.tag = "Disconnected" )
           => /\ peer_stats'[p].status = Connected
              /\ NegativeReputation(peer_stats'[p]) = NegativeReputation(peer_stats[p])
    ]_vars

\* a peer that was retained by remove_peer (only that sets a mesh_status back
\* to InActive, here with the sticky penalty it charged) is Connected again
\* through the add_peer just made, still carrying its penalties
C7_Witness ==
  /\ last.op = "add_peer" /\ last.peer = "A"
  /\ "A" \in DOMAIN peer_stats
  /\ peer_stats["A"].status = Connected
  /\ peer_stats["A"].behaviour_penalty > 0
  /\ "T" \in DOMAIN peer_stats["A"].topics
  /\ peer_stats["A"].topics["T"].invalid_message_deliveries > 0
  /\ peer_stats["A"].topics["T"].mesh_failure_penalty > 0
  /\ peer_stats["A"].topics["T"].mesh_status = InActive

\* C8: refresh_scores leaves the topic statistics (the four counters, mesh_time,
\* mesh_message_deliveries_active) and the behaviour_penalty of a Disconnected
\* peer whose retention has not expired as they were.
C8_RetainedPeerNotDecayed ==
  [][ last'.op = "refresh_scores"
      => \A p \in DOMAIN peer_stats :
           ( /\ peer_stats[p].status.tag = "Disconnected"
             /\ now <= peer_stats[p].status.expire )
           => /\ p \in DOMAIN peer_stats'
              /\ peer_stats'[p].topics = peer_stats[p].topics
              /\ peer_stats'[p].behaviour_penalty = peer_stats[p].behaviour_penalty
    ]_vars

\* refresh_scores has just run over a retained, unexpired peer whose counters
\* are not zero
C8_Witness ==
  /\ last.op = "refresh_scores"
  /\ "A" \in DOMAIN peer_stats
  /\ peer_stats["A"].status.tag = "Disconnected"
  /\ now <= peer_stats["A"].status.expire
  /\ peer_stats["A"].behaviour_penalty > 0
  /\ "T" \in DOMAIN peer_stats["A"].topics
  /\ peer_stats["A"].topics["T"].invalid_message_deliveries > 0
  /\ peer_stats["A"].topics["T"].mesh_message_deliveries > 0

\* C9: refresh_scores called after a retained peer's expire time leaves the
\* peer without PeerStats and in no peer_ips set; called at or before expire
\* it keeps the peer.
C9_ExpiredPeerErased ==
  [][ last'.op = "refresh_scores"
      => \A p \in DOMAIN peer_stats :
           peer_stats[p].status.tag = "Disconnected"
           => IF now > peer_stats[p].status.expire
              THEN /\ p \notin DOMAIN peer_stats'
                   /\ \A ip \in DOMAIN peer_ips' : p \notin peer_ips'[ip]
              ELSE p \in DOMAIN peer_stats'
    ]_vars

\* x, in units of 1/unit, is zero or at least decay_to_zero
ZeroOrAboveFloor(x, unit) ==
  x = 0 \/ x * params.decay_to_zero.den >= params.decay_to_zero.num * unit

\* C10: behaviour_penalty and the four per-topic counters are never negative,
\* and right after refresh_scores every counter of a Connected peer on a scored
\* topic is zero or at least decay_to_zero.
C10_CountersNonNegativeAndFloored ==
  \A p \in DOMAIN peer_stats :
    /\ peer_stats[p].behaviour_penalty >= 0
    /\ \A topic \in DOMAIN peer_stats[p].topics :
         LET ts == peer_stats[p].topics[topic] IN
         /\ ts.first_message_deliveries >= 0
         /\ ts.mesh_message_deliveries >= 0
         /\ ts.mesh_failure_penalty >= 0
         /\ ts.invalid_message_deliveries >= 0
    /\ (last.op = "refresh_scores" /\ peer_stats[p].status = Connected)
       => \A topic \in ScoredTopicsOf(peer_stats, p) :
            LET ts == peer_stats[p].topics[topic] IN
            /\ ZeroOrAboveFloor(ts.first_message_deliveries, Scale)
            /\ ZeroOrAboveFloor(ts.mesh_message_deliveries, Scale)
            /\ ZeroOrAboveFloor(ts.mesh_failure_penalty, Scale2)
            /\ ZeroOrAboveFloor(ts.invalid_message_deliveries, Scale)

\* refresh_scores has just decayed a Connected peer that still holds counters
\* above the floor, next to one that is zero
C10_Witness ==
  /\ last.op = "refresh_scores"
  /\ "A" \in DOMAIN peer_stats
  /\ peer_stats["A"].status = Connected
  /\ "T" \in DOMAIN peer_stats["A"].topics
  /\ peer_stats["A"].topics["T"].first_message_deliveries > 0
  /\ peer_stats["A"].topics["T"].invalid_message_deliveries = 0
  /\ peer_stats["A"].topics["T"].mesh_failure_penalty > 0

C12_UnknownOrBlankPeerScoresZero ==
  ( /\ last.op = "score"
    /\ \/ last.peer \notin DOMAIN peer_stats
       \/ /\ peer_stats[last.peer].behaviour_penalty = 0
          /\ DOMAIN peer_stats[last.peer].topics = {}
          /\ peer_stats[last.peer].known_ips = <<>> )
  => last.args[1] = 0

\* score has just been asked for a known peer without penalty, TopicStats or
\* address while other peers share an address and one of them scores below 0
C12_Witness ==
  /\ last.op = "score"
  /\ last.peer \in DOMAIN peer_stats
  /\ peer_stats[last.peer].behaviour_penalty = 0
  /\ DOMAIN peer_stats[last.peer].topics = {}
  /\ peer_stats[last.peer].known_ips = <<>>
  /\ "X" \in DOMAIN peer_ips
  /\ Cardinality(peer_ips["X"]) >= 2
  /\ \E p \in DOMAIN peer_stats : score(peer_stats, peer_ips, p) < 0

\* C13: a delivery record whose status is no longer Unknown keeps that status
\* through every later call.
C13_RecordResolvedOnce ==
  [][ \A id \in DOMAIN deliveries :
        deliveries[id].status # "Unknown"
        => /\ id \in DOMAIN deliveries'
           /\ deliveries'[id].status = deliveries[id].status
    ]_vars

\* deliver_message has just been called for a message whose record was
\* already Invalid, Ignored or Throttled
C13_Witness ==
  /\ last.op = "deliver_message"
  /\ msg_id(last.args[1]) \in DOMAIN deliveries
  /\ deliveries[msg_id(last.args[1])].status \in {"Invalid", "Ignored", "Throttled"}

\* C14: deliver_message, or reject_message with a reason that reaches the
\* record, for a message whose record is no longer Unknown is dropped: the
\* record and every counter of every peer are as before the call.
C14_LateTraceIsDropped ==
  [][ ( /\ \/ last'.op = "deliver_message"
           \/ /\ last'.op = "reject_message"
              /\ last'.args[2] \notin UntrackedReasons
        /\ msg_id(last'.args[1]) \in DOMAIN deliveries
        /\ deliveries[msg_id(last'.args[1])].status # "Unknown" )
      => /\ deliveries' = deliveries
         /\ peer_stats' = peer_stats
    ]_vars

\* C15: reject_message with MissingSignature, InvalidSignature or
\* BlacklistedPeer leaves the delivery cache as it was.
C15_SignatureRejectsTouchNoRecord ==
  [][ (last'.op = "reject_message" /\ last'.args[2] \in InvalidReasons)
      => deliveries' = deliveries
    ]_vars

\* C16: reject_message with ValidationThrottled (ValidationIgnored) for a
\* message whose record is absent or Unknown leaves the record Throttled
\* (Ignored) with no peers and changes no counter; duplicated_message for a
\* message whose record is Throttled or Ignored changes no counter.
C16_ThrottledAndIgnoredAreNeutral ==
  [][ /\ ( /\ last'.op = "reject_message"
           /\ last'.args[2] \in {"ValidationThrottled", "ValidationIgnored"}
           /\ record_or_default(deliveries, msg_id(last'.args[1]), now).status
                = "Unknown" )
         => /\ msg_id(last'.args[1]) \in DOMAIN deliveries'
            /\ deliveries'[msg_id(last'.args[1])].status
                 = (IF last'.args[2] = "ValidationThrottled"
                    THEN "Throttled" ELSE "Ignored")
            /\ deliveries'[msg_id(last'.args[1])].peers = {}
            /\ peer_stats' = peer_stats
      /\ ( /\ last'.op = "duplicated_message"
           /\ msg_id(last'.args[1]) \in DOMAIN deliveries
           /\ deliveries[msg_id(last'.args[1])].status \in {"Throttled", "Ignored"} )
         => peer_stats' = peer_stats
    ]_vars

\* a peer in the mesh of the scored topic has just reported a duplicate of a
\* message whose record is Throttled or Ignored
C16_Witness ==
  /\ last.op = "duplicated_message"
  /\ msg_id(last.args[1]) \in DOMAIN deliveries
  /\ deliveries[msg_id(last.args[1])].status \in {"Throttled", "Ignored"}
  /\ last.peer \in DOMAIN peer_stats
  /\ in_mesh(TopicStatsOf(peer_stats, last.peer, "T"))

\* C17: when p, in the mesh of a scored topic of m, reports m as a duplicate
\* while its record is absent or Unknown and another peer q then delivers m,
\* p's mesh_message_deliveries on that topic grows by 1, up to the cap.
C17_DuplicateCreditIsDeferred ==
  \A p \in DOMAIN peer_stats : \A q \in Peers \ {p} : \A m \in Messages :
    record_or_default(deliveries, msg_id(m), now).status = "Unknown"
    => LET stats1 == duplicated_message_stats(peer_stats, deliveries, p, m, now)
           records1 == duplicated_message_records(deliveries, p, m, now)
           stats2 == deliver_message_stats(stats1, records1, q, m, now)
       IN \A topic \in Range(m.topics) \cap DOMAIN params.topics :
            in_mesh(TopicStatsOf(peer_stats, p, topic))
            => LET before == TopicStatsOf(peer_stats, p, topic).mesh_message_deliveries
                   cap == params.topics[topic].mesh_message_deliveries_cap * Scale
               IN TopicStatsOf(stats2, p, topic).mesh_message_deliveries
                    = (IF before + Scale > cap THEN cap ELSE before + Scale)

\* C18: prune of a known peer on a scored topic adds (threshold -
\* mesh_message_deliveries)^2 to mesh_failure_penalty when
\* mesh_message_deliveries_active holds and the deliveries are below the
\* threshold, adds nothing otherwise, and leaves
\* mesh_message_deliveries_active false.
C18_PruneChargesSquaredDeficit ==
  [][ ( /\ last'.op = "prune"
        /\ last'.peer \in DOMAIN peer_stats
        /\ last'.args[1] \in DOMAIN params.topics )
      => LET old == TopicStatsOf(peer_stats, last'.peer, last'.args[1])
             new == TopicStatsOf(peer_stats', last'.peer, last'.args[1])
             threshold == params.topics[last'.args[1]].mesh_message_deliveries_threshold
                            * Scale
             deficit == threshold - old.mesh_message_deliveries
         IN /\ new.mesh_failure_penalty
                 = old.mesh_failure_penalty
                     + (IF /\ old.mesh_message_deliveries_active
                           /\ old.mesh_message_deliveries < threshold
                        THEN deficit * deficit ELSE 0)
            /\ new.mesh_message_deliveries_active = FALSE
    ]_vars

\* prune has just been called for a peer that a refresh found in the mesh for
\* more than the activation time, and the peer carries a mesh failure penalty
C18_Witness ==
  /\ last.op = "prune"
  /\ last.peer \in DOMAIN peer_stats
  /\ "T" \in DOMAIN peer_stats[last.peer].topics
  /\ LET ts == peer_stats[last.peer].topics["T"]
     IN /\ ts.mesh_status.tag = "Active"
        /\ ts.mesh_status.mesh_time > params.topics["T"].mesh_message_deliveries_activation
        /\ ts.mesh_failure_penalty > 0
        /\ ts.mesh_message_deliveries_active = FALSE

\* the P6 term of one address: n = |peer_ips[ip]|, (n - threshold)^2 * weight
\* above the threshold, nothing at or below it or for a whitelisted address
ExpectedP6(ip) ==
  LET n == IF ip \in DOMAIN peer_ips THEN Cardinality(peer_ips[ip]) ELSE 0
      threshold == params.ip_colocation_factor_threshold
  IN IF ip \in params.ip_colocation_factor_whitelist \/ n <= threshold THEN 0
     ELSE (n - threshold) * (n - threshold) * params.ip_colocation_factor_weight
            * Scale2

\* C19: the score of a known peer is its topic score and behaviour penalty
\* plus, for every address of its known_ips, the P6 term of that address.
C19_IpColocationPenalty ==
  (last.op = "score" /\ last.peer \in DOMAIN peer_stats)
  => LET pstats == peer_stats[last.peer]
         addresses == Range(pstats.known_ips)
     IN last.args[1]
          = topics_score(pstats)
              + pstats.behaviour_penalty * pstats.behaviour_penalty
                  * params.behaviour_penalty_weight
              + Sum([ip \in addresses |-> ExpectedP6(ip)], addresses)

\* score has just been asked for a peer at an address shared by three peers,
\* one of them retained after leaving, and at a whitelisted address shared by
\* two
C19_Witness ==
  /\ last.op = "score"
  /\ last.peer \in DOMAIN peer_stats
  /\ Range(peer_stats[last.peer].known_ips) = {"X", "W"}
  /\ Cardinality(peer_ips["X"]) = 3
  /\ Cardinality(peer_ips["W"]) >= 2
  /\ \E p \in peer_ips["X"] \cap DOMAIN peer_stats :
       peer_stats[p].status.tag = "Disconnected"
  /\ last.args[1] = ExpectedP6("X") + topics_score(peer_stats[last.peer])
  /\ ExpectedP6("X") = -4 * Scale2

\* C20: wherever stats_or_default_mut returns Some, which is where prune,
\* mark_first_message_delivery and mark_duplicate_message_delivery look the
\* topic up in params.topics and expect it there, the topic is scored.
C20_ExpectedTopicsAreScored ==
  \A p \in DOMAIN peer_stats : \A topic \in Topics :
    has_topic_stats(peer_stats[p], topic) => topic \in DOMAIN params.topics

\* graft or prune has just been called on the unscored topic for a peer that
\* has TopicStats for the scored one
C20_Witness ==
  /\ last.op \in {"graft", "prune"}
  /\ last.args[1] = "U"
  /\ last.peer \in DOMAIN peer_stats
  /\ "T" \in DOMAIN peer_stats[last.peer].topics

\* deliver_message, duplicated_message or a reject_message that reaches the
\* record has just been called for msg
TracksRecord(call, msg) ==
  /\ \/ call.op \in {"deliver_message", "duplicated_message"}
     \/ call.op = "reject_message" /\ call.args[2] \notin UntrackedReasons
  /\ call.args[1] = msg

\* C21: a delivery record lives TIME_CACHE_DURATION from its creation, whatever
\* events name its message meanwhile: the record an event finds was created
\* (first_seen) at most TIME_CACHE_DURATION before the event.
C21_RecordExpiresAfterCreation ==
  \A m \in Messages :
    TracksRecord(last, m)
    => /\ msg_id(m) \in DOMAIN deliveries
       /\ deliveries[msg_id(m)].first_seen + TIME_CACHE_DURATION >= now

\* C22: prune of a known peer on a scored topic takes the peer out of the mesh
\* of that topic: its mesh_status is InActive after the call.
C22_PruneLeavesMesh ==
  [][ ( /\ last'.op = "prune"
        /\ last'.peer \in DOMAIN peer_stats
        /\ last'.args[1] \in DOMAIN params.topics )
      => TopicStatsOf(peer_stats', last'.peer, last'.args[1]).mesh_status = InActive
    ]_vars

\* C23: between a graft of a peer on a topic and the next one, whatever calls
\* come in between, mesh_failure_penalty of that peer and topic is raised at
\* most once.
C23_PenaltyChargedOncePerSession ==
  \A pair \in DOMAIN sessions : sessions[pair].charges <= 1

\* C24: deliver_message from a known peer raises the peer's
\* mesh_message_deliveries by 1, up to mesh_message_deliveries_cap, on every
\* scored topic of the message where the peer is in the mesh, whatever its
\* first_message_deliveries, and leaves it alone on the other scored topics.
C24_FirstDeliveryCountsOneMeshDelivery ==
  [][ (last'.op = "deliver_message" /\ last'.peer \in DOMAIN peer_stats)
      => \A topic \in Range(last'.args[1].topics) \cap DOMAIN params.topics :
           LET old == TopicStatsOf(peer_stats, last'.peer, topic)
               new == TopicStatsOf(peer_stats', last'.peer, topic)
               cap == params.topics[topic].mesh_message_deliveries_cap * Scale
           IN new.mesh_message_deliveries
                = (IF ~in_mesh(old) THEN old.mesh_message_deliveries
                   ELSE IF old.mesh_message_deliveries + Scale > cap THEN cap
                   ELSE old.mesh_message_deliveries + Scale)
    ]_vars

\* the instants the clock has shown so far
PastInstants == { 60 * k : k \in 0..(now \div 60) }

\* C25: mark_duplicate_message_delivery raises mesh_message_deliveries by 1,
\* up to the cap, on every scored topic of the message where the peer is in
\* the mesh when validated_time is absent or now <= validated_time +
\* mesh_message_deliveries_window, and leaves it alone otherwise; so does
\* duplicated_message for a peer new to a Valid record.
C25_DuplicateCountsWithinWindow ==
  \A p \in DOMAIN peer_stats : \A m \in Messages :
    \A topic \in Range(m.topics) \cap DOMAIN params.topics :
      LET old == TopicStatsOf(peer_stats, p, topic)
          cap == params.topics[topic].mesh_message_deliveries_cap * Scale
          window == params.topics[topic].mesh_message_deliveries_window
          raised == IF old.mesh_message_deliveries + Scale > cap THEN cap
                    ELSE old.mesh_message_deliveries + Scale
          records == unexpired(deliveries, delivery_times, now)
      IN /\ \A validated_time \in {<<>>} \cup { <<t>> : t \in PastInstants } :
              TopicStatsOf(mark_duplicate_message_delivery(
                             peer_stats, p, m, validated_time, now),
                           p, topic).mesh_message_deliveries
                = (IF /\ in_mesh(old)
                      /\ \/ validated_time = <<>>
                         \/ now <= validated_time[1] + window
                   THEN raised ELSE old.mesh_message_deliveries)
         /\ ( /\ msg_id(m) \in DOMAIN records
              /\ records[msg_id(m)].status = "Valid"
              /\ p \notin records[msg_id(m)].peers )
            => TopicStatsOf(duplicated_message_stats(peer_stats, records, p, m, now),
                            p, topic).mesh_message_deliveries
                 = (IF in_mesh(old) /\ now <= records[msg_id(m)].validated + window
                    THEN raised ELSE old.mesh_message_deliveries)

\* C26: graft leaves the peer Active with mesh_time 0 and
\* mesh_message_deliveries_active false; the flag turns true only in a
\* refresh_scores over a Connected peer at which now - graft_time exceeds
\* mesh_message_deliveries_activation; so wherever the flag is true, more
\* than that duration has passed since the most recent graft.
C26_ActivationAfterWindow ==
  [][ \A p \in DOMAIN peer_stats' : \A topic \in DOMAIN params.topics :
        LET old == TopicStatsOf(peer_stats, p, topic)
            new == TopicStatsOf(peer_stats', p, topic)
            activation == params.topics[topic].mesh_message_deliveries_activation
        IN /\ (last'.op = "graft" /\ last'.peer = p /\ last'.args[1] = topic)
              => /\ new.mesh_status = Active(now, 0)
                 /\ new.mesh_message_deliveries_active = FALSE
           /\ ( /\ ~old.mesh_message_deliveries_active
                /\ new.mesh_message_deliveries_active )
              => /\ last'.op = "refresh_scores"
                 /\ p \in DOMAIN peer_stats
                 /\ peer_stats[p].status = Connected
                 /\ in_mesh(old)
                 /\ now - old.mesh_status.graft_time > activation
           /\ new.mesh_message_deliveries_active
              => /\ <<p, topic>> \in DOMAIN sessions'
                 /\ now' - sessions'[<<p, topic>>].grafted > activation
    ]_vars

\* refresh_scores has just activated the mesh deliveries of a peer grafted
\* more than the activation duration ago
C26_Witness ==
  /\ last.op = "refresh_scores"
  /\ "A" \in DOMAIN peer_stats
  /\ LET ts == TopicStatsOf(peer_stats, "A", "T")
     IN /\ ts.mesh_message_deliveries_active
        /\ in_mesh(ts)
        /\ ts.mesh_status.mesh_time
             > params.topics["T"].mesh_message_deliveries_activation
        /\ sessions[<<"A", "T">>].grafted = ts.mesh_status.graft_time

\* C27: remove_peer of a known peer whose score is not positive keeps the
\* peer: its status becomes Disconnected with expire = now + retain_score;
\* on every topic first_message_deliveries is 0 and mesh_status InActive;
\* mesh_failure_penalty grows by (threshold - mesh_message_deliveries)^2 on
\* the scored topics where the peer was in the mesh with deliveries active
\* and below the threshold, and by nothing elsewhere; behaviour_penalty,
\* invalid_message_deliveries, known_ips and peer_ips stay as they were.
C27_RemovePeerRetains ==
  [][ ( /\ last'.op = "remove_peer"
        /\ last'.peer \in DOMAIN peer_stats
        /\ score(peer_stats, peer_ips, last'.peer) <= 0 )
      => /\ last'.peer \in DOMAIN peer_stats'
         /\ LET old == peer_stats[last'.peer]
                new == peer_stats'[last'.peer]
            IN /\ new.status = Disconnected(now + params.retain_score)
               /\ new.behaviour_penalty = old.behaviour_penalty
               /\ new.known_ips = old.known_ips
               /\ DOMAIN new.topics = DOMAIN old.topics
               /\ \A topic \in DOMAIN old.topics :
                    LET o == old.topics[topic]
                        n == new.topics[topic]
                        threshold ==
                          IF topic \in DOMAIN params.topics
                          THEN params.topics[topic].mesh_message_deliveries_threshold
                                 * Scale
                          ELSE 0
                        deficit == threshold - o.mesh_message_deliveries
                    IN /\ n.first_message_deliveries = 0
                       /\ n.mesh_status = InActive
                       /\ n.invalid_message_deliveries = o.invalid_message_deliveries
                       /\ n.mesh_failure_penalty
                            = o.mesh_failure_penalty
                                + (IF /\ topic \in DOMAIN params.topics
                                      /\ in_mesh(o)
                                      /\ o.mesh_message_deliveries_active
                                      /\ o.mesh_message_deliveries < threshold
                                   THEN deficit * deficit ELSE 0)
         /\ peer_ips' = peer_ips
    ]_vars

\* remove_peer has just retained a peer that had an address, a behaviour
\* penalty and active mesh deliveries below the threshold, charging it the
\* deficit once
C27_Witness ==
  /\ last.op = "remove_peer"
  /\ "A" \in DOMAIN peer_stats
  /\ peer_stats["A"].status = Disconnected(now + params.retain_score)
  /\ peer_stats["A"].behaviour_penalty > 0
  /\ peer_stats["A"].known_ips = <<"X">>
  /\ "A" \in peer_ips["X"]
  /\ LET ts == TopicStatsOf(peer_stats, "A", "T")
     IN /\ ts.mesh_status = InActive
        /\ ts.mesh_message_deliveries_active
        /\ ts.mesh_failure_penalty > 0
        /\ sessions[<<"A", "T">>].charges = 1

\* msg published in the unscored topics alone
OnUnscoredTopics(msg) ==
  [msg EXCEPT !.topics = SelectSeq(msg.topics, LAMBDA t : t \notin DOMAIN params.topics)]

\* C28: every TopicStats belongs to a scored topic; only add_peer creates a
\* PeerStats entry, and only for its own peer; graft and prune on an unscored
\* topic or for an unknown peer change no statistics; and for the peer and
\* message of a message event the three mark_* updates change nothing when
\* the peer is unknown or the message is taken on its unscored topics alone.
C28_StatsOnlyForScoredTopicsOfKnownPeers ==
  [][ /\ \A p \in DOMAIN peer_stats' :
           DOMAIN peer_stats'[p].topics \subseteq DOMAIN params.topics
      /\ (DOMAIN peer_stats') \ (DOMAIN peer_stats)
           \subseteq (IF last'.op = "add_peer" THEN {last'.peer} ELSE {})
      /\ ( /\ last'.op \in {"graft", "prune"}
           /\ \/ last'.peer \notin DOMAIN peer_stats
              \/ last'.args[1] \notin DOMAIN params.topics )
         => peer_stats' = peer_stats
      /\ last'.op \in {"deliver_message", "reject_message", "duplicated_message"}
         => \A msg \in (IF last'.peer \in DOMAIN peer_stats
                        THEN {OnUnscoredTopics(last'.args[1])}
                        ELSE {last'.args[1], OnUnscoredTopics(last'.args[1])}) :
              /\ mark_invalid_message_delivery(peer_stats, last'.peer, msg)
                   = peer_stats
              /\ mark_first_message_delivery(peer_stats, last'.peer, msg)
                   = peer_stats
              /\ \A validated_time \in {<<>>, <<now>>} :
                   mark_duplicate_message_delivery(peer_stats, last'.peer, msg,
                                                   validated_time, now)
                     = peer_stats
    ]_vars

\* deliver_message has just been called for a peer the engine does not know,
\* while a known peer in the mesh of the scored topic holds delivery credit
C28_Witness ==
  /\ last.op = "deliver_message"
  /\ last.peer \notin DOMAIN peer_stats
  /\ \E q \in DOMAIN peer_stats :
       /\ DOMAIN peer_stats[q].topics = {"T"}
       /\ in_mesh(peer_stats[q].topics["T"])
       /\ peer_stats[q].topics["T"].first_message_deliveries > 0

\* C29: wherever mesh_message_deliveries_active is true for a peer and topic,
\* the peer's mesh_status for that topic is Active.
C29_ActiveFlagOnlyInMesh ==
  \A p \in DOMAIN peer_stats : \A topic \in DOMAIN peer_stats[p].topics :
    peer_stats[p].topics[topic].mesh_message_deliveries_active
    => in_mesh(peer_stats[p].topics[topic])

\* C30: a Disconnected peer has mesh_status InActive on every topic, and a
\* graft, deliver_message or duplicated_message naming it leaves its
\* mesh_status as it was and raises neither its first_message_deliveries nor
\* its mesh_message_deliveries.
C30_DisconnectedPeerIsIdle ==
  [][ \A p \in DOMAIN peer_stats' :
        peer_stats'[p].status.tag = "Disconnected"
        => /\ \A topic \in DOMAIN peer_stats'[p].topics :
                peer_stats'[p].topics[topic].mesh_status = InActive
           /\ ( /\ p \in DOMAIN peer_stats
                /\ peer_stats[p].status.tag = "Disconnected"
                /\ last'.op \in {"graft", "deliver_message", "duplicated_message"}
                /\ last'.peer = p )
              => \A topic \in DOMAIN params.topics :
                   LET old == TopicStatsOf(peer_stats, p, topic)
                       new == TopicStatsOf(peer_stats', p, topic)
                   IN /\ new.mesh_status = old.mesh_status
                      /\ new.first_message_deliveries <= old.first_message_deliveries
                      /\ new.mesh_message_deliveries <= old.mesh_message_deliveries
    ]_vars

\* C31: the peers set of every delivery record is empty after every call, so
\* a deliver_message or reject_message call changes the statistics of no peer
\* other than the one it is called for, and no peer is added or erased by it.
C31_RecordPeersStayEmpty ==
  [][ /\ \A id \in DOMAIN deliveries' : deliveries'[id].peers = {}
      /\ last'.op \in {"deliver_message", "reject_message"}
         => \A p \in Peers \ {last'.peer} :
              /\ p \in DOMAIN peer_stats' <=> p \in DOMAIN peer_stats
              /\ p \in DOMAIN peer_stats => peer_stats'[p] = peer_stats[p]
    ]_vars

\* deliver_message has just marked Valid a message that another peer, known
\* and in the mesh of the scored topic, had reported as a duplicate while the
\* record was Unknown
C31_Witness ==
  /\ last.op = "deliver_message"
  /\ msg_id(last.args[1]) \in DOMAIN deliveries
  /\ deliveries[msg_id(last.args[1])].status = "Valid"
  /\ msg_id(last.args[1]) \in DOMAIN observers
  /\ \E q \in observers[msg_id(last.args[1])] \ {last.peer} :
       /\ q \in DOMAIN peer_stats
       /\ in_mesh(TopicStatsOf(peer_stats, q, "T"))

\* C32: with ip_colocation_factor_weight <= 0, behaviour_penalty_weight <= 0
\* and topic_score_cap > 0, the score of every peer, and every value score
\* returns, is at most topic_score_cap.
C32_ScoreAtMostTopicScoreCap ==
  ( /\ params.ip_colocation_factor_weight <= 0
    /\ params.behaviour_penalty_weight <= 0
    /\ params.topic_score_cap > 0 )
  => /\ \A p \in ScorePeers :
          score(peer_stats, peer_ips, p) <= params.topic_score_cap * Scale2
     /\ last.op = "score" => last.args[1] <= params.topic_score_cap * Scale2

\* score has just been asked for a peer whose summed topic scores exceed the
\* cap, who has a behaviour penalty and shares a plain address, and the value
\* returned is the cap plus the P6 and P7 terms
C32_Witness ==
  /\ last.op = "score"
  /\ last.peer \in DOMAIN peer_stats
  /\ topics_score_uncapped(peer_stats[last.peer]) > params.topic_score_cap * Scale2
  /\ peer_stats[last.peer].behaviour_penalty > 0
  /\ ExpectedP6("X") < 0
  /\ "X" \in Range(peer_stats[last.peer].known_ips)
  /\ last.args[1] = params.topic_score_cap * Scale2 + ExpectedP6("X")
                      + peer_stats[last.peer].behaviour_penalty
                          * peer_stats[last.peer].behaviour_penalty
                          * params.behaviour_penalty_weight

====
